---- MODULE Spec2Model ----
(***************************************************************************)
(* Model of the Flask adaptor (src/adaptor.py): component scan, use-case   *)
(* enumeration and use-case tracing over Python syntax trees.              *)
(*                                                                         *)
(* A Python string is a sequence of chunks; a chunk is either the single   *)
(* space " " or a non-empty run of characters holding no space.  So        *)
(* "GET /users" is <<"GET", " ", "/users">>.  Identifiers (class names,    *)
(* attribute names) are plain TLA+ strings and become one-chunk strings    *)
(* when they are used as labels.                                           *)
(***************************************************************************)
EXTENDS Integers, Sequences, FiniteSets, TLC

VARIABLES source_paths, graph, use_cases, last, pre, nops

vars == <<source_paths, graph, use_cases, last, pre, nops>>

(***************************************************************************)
(* Bounds of the exploration.                                              *)
(***************************************************************************)
MaxOps == 3

(***************************************************************************)
(* Strings.                                                                *)
(***************************************************************************)
SP == " "
S(w) == <<w>>
Words(a, b) == <<a, SP, b>>

\* The concatenation of a sequence of sequences, halving the sequence.
RECURSIVE Concat(_)
Concat(ss) ==
    IF Len(ss) = 0 THEN <<>>
    ELSE IF Len(ss) = 1 THEN ss[1]
    ELSE Concat(SubSeq(ss, 1, Len(ss) \div 2))
         \o Concat(SubSeq(ss, Len(ss) \div 2 + 1, Len(ss)))

Range(s) == {s[i] : i \in 1..Len(s)}

(***************************************************************************)
(* Syntax-tree nodes, as the ast module builds them.                       *)
(***************************************************************************)
Name(id) == [k |-> "Name", id |-> id]
Attribute(value, attr) == [k |-> "Attribute", value |-> value, attr |-> attr]
Constant(v) == [k |-> "Constant", value |-> v]
List(elts) == [k |-> "List", elts |-> elts]
Tuple(elts) == [k |-> "Tuple", elts |-> elts]
Keyword(arg, value) == [k |-> "keyword", arg |-> arg, value |-> value]
CallKw(func, args, keywords) ==
    [k |-> "Call", func |-> func, args |-> args, keywords |-> keywords]
Call(func, args) == CallKw(func, args, <<>>)
Expr(value) == [k |-> "Expr", value |-> value]
Assign(targets, value) == [k |-> "Assign", targets |-> targets, value |-> value]
Pass == [k |-> "Pass"]
ClassDef(name, bases, body) ==
    [k |-> "ClassDef", name |-> name, bases |-> bases, body |-> body]
FunctionDef(name, decorator_list, body) ==
    [k |-> "FunctionDef", name |-> name, decorator_list |-> decorator_list,
     body |-> body]
Module(body) == [k |-> "Module", body |-> body]

NoNode == [k |-> "None"]

\* The node kinds that carry a field called `value` (node.value does not raise).
HasValueField(n) == n.k \in {"Constant", "Attribute", "Expr", "Assign", "keyword"}

(***************************************************************************)
(* The source files the exploration draws from.  Route bindings:           *)
(***************************************************************************)
Route(obj, path) == Call(Attribute(Name(obj), "route"), <<path>>)
RouteM(obj, path, methods) ==
    CallKw(Attribute(Name(obj), "route"), <<path>>, <<Keyword("methods", methods)>>)
Lit(w) == Constant(S(w))
Method(recv, attr, args) == Call(Attribute(Name(recv), attr), args)

ApiUrl == S("https://api")

\* class User(db.Model): pass
\* @app.route("/users", methods=["GET"])
\* def list_users(): return User.query.all()
UsersPy ==
    Module(<<
      ClassDef("User", <<Attribute(Name("db"), "Model")>>, <<Pass>>),
      FunctionDef("list_users",
        <<RouteM("app", Lit("/users"), List(<<Lit("GET")>>))>>,
        <<Expr(Call(Attribute(Attribute(Name("User"), "query"), "all"), <<>>))>>)
    >>)

\* class User(db.Model, Model): pass
\* class Audit(Base): pass
\* client = requests.Session()
\* def make_client():
\*     sess = requests.Session()
\* class Service:
\*     api = requests.Session()
ModelsPy ==
    Module(<<
      ClassDef("User", <<Attribute(Name("db"), "Model"), Name("Model")>>, <<Pass>>),
      ClassDef("Audit", <<Name("Base")>>, <<Pass>>),
      Assign(<<Name("client")>>, Method("requests", "Session", <<>>)),
      FunctionDef("make_client", <<>>,
        <<Assign(<<Name("sess")>>, Method("requests", "Session", <<>>))>>),
      ClassDef("Service", <<>>,
        <<Assign(<<Name("api")>>, Method("requests", "Session", <<>>))>>)
    >>)

\* @app.route("/users")
\* def first():
\*     User.query()
\* @bp.route("/users", methods=["GET", "POST"])
\* def second():
\*     requests.get("https://api")
\*     requests.post("https://api")
\*     requests.put(url)
\*     Foo.query()
DupPy ==
    Module(<<
      FunctionDef("first", <<Route("app", Lit("/users"))>>,
        <<Expr(Method("User", "query", <<>>))>>),
      FunctionDef("second",
        <<RouteM("bp", Lit("/users"), List(<<Lit("GET"), Lit("POST")>>))>>,
        <<Expr(Method("requests", "get", <<Constant(ApiUrl)>>)),
          Expr(Method("requests", "post", <<Constant(ApiUrl)>>)),
          Expr(Method("requests", "put", <<Name("url")>>)),
          Expr(Method("Foo", "query", <<>>))>>)
    >>)

\* @app.route("/x", methods=("GET",))
\* def x():
\*     requests.get("GET /x")
\*     requests.delete("User")
\*     db.session.commit()
\*     User.add(requests.patch())
\*     def inner():
\*         Foo.delete()
ExtPy ==
    Module(<<
      FunctionDef("x",
        <<RouteM("app", Lit("/x"), Tuple(<<Lit("GET")>>))>>,
        <<Expr(Method("requests", "get", <<Constant(Words("GET", "/x"))>>)),
          Expr(Method("requests", "delete", <<Lit("User")>>)),
          Expr(Call(Attribute(Attribute(Name("db"), "session"), "commit"), <<>>)),
          Expr(Method("User", "add", <<Method("requests", "patch", <<>>)>>)),
          FunctionDef("inner", <<>>, <<Expr(Method("Foo", "delete", <<>>))>>)>>)
    >>)

\* @app.route("/a")
\* def a(): pass
\* @app.route(PATH)
\* def b(): pass
\* @app.route("/c")
\* def c(): requests.get("https://api")
NonlitPy ==
    Module(<<
      FunctionDef("a", <<Route("app", Lit("/a"))>>, <<Pass>>),
      FunctionDef("b", <<Route("app", Name("PATH"))>>, <<Pass>>),
      FunctionDef("c", <<Route("app", Lit("/c"))>>,
        <<Expr(Method("requests", "get", <<Constant(ApiUrl)>>))>>)
    >>)

\* @login_required
\* @app.route()
\* def noarg(): pass
\* @app.route(cfg.PATH, methods=["POST"])
\* def b2(): pass
\* class Api:
\*     @app.route("/e")
\*     def e(self): User.commit()
\* @app.route("/d", methods=[X])
\* def d(): pass
JunkPy ==
    Module(<<
      FunctionDef("noarg",
        <<Name("login_required"), Call(Attribute(Name("app"), "route"), <<>>)>>,
        <<Pass>>),
      FunctionDef("b2",
        <<RouteM("app", Attribute(Name("cfg"), "PATH"), List(<<Lit("POST")>>))>>,
        <<Pass>>),
      ClassDef("Api", <<>>,
        <<FunctionDef("e", <<Route("app", Lit("/e"))>>,
            <<Expr(Method("User", "commit", <<>>))>>)>>),
      FunctionDef("d", <<RouteM("app", Lit("/d"), List(<<Name("X")>>))>>, <<Pass>>)
    >>)

\* The paths a caller may pass.  "broken.py" does not parse; "notes.txt" is
\* not a Python file; "app" and "svc" are directories.
Paths ==
    {"users.py", "models.py", "dup.py", "ext.py", "nonlit.py", "junk.py",
     "broken.py", "notes.txt", "app", "svc"}

IsDir(path) == path \in {"app", "svc"}
EndsWithPy(path) == path \in {"users.py", "models.py", "dup.py", "ext.py",
                              "nonlit.py", "junk.py", "broken.py"}
\* glob.glob(os.path.join(path, "**/*.py"), recursive=True)
Glob(path) ==
    CASE path = "app" -> <<"dup.py", "users.py">>
      [] path = "svc" -> <<"broken.py", "ext.py", "models.py", "users.py">>
      [] OTHER -> <<>>
\* ast.parse(f.read()): the tree, or a SyntaxError.
Parses(file_path) == file_path # "broken.py"
Parse(file_path) ==
    CASE file_path = "users.py" -> UsersPy
      [] file_path = "models.py" -> ModelsPy
      [] file_path = "dup.py" -> DupPy
      [] file_path = "ext.py" -> ExtPy
      [] file_path = "nonlit.py" -> NonlitPy
      [] file_path = "junk.py" -> JunkPy
      [] OTHER -> Module(<<>>)

(***************************************************************************)
(* Tree traversal.                                                         *)
(***************************************************************************)
\* ast.iter_child_nodes: the child nodes of a node, in field order.
iter_child_nodes(n) ==
    CASE n.k = "Module" -> n.body
      [] n.k = "FunctionDef" -> n.body \o n.decorator_list
      [] n.k = "ClassDef" -> n.bases \o n.body
      [] n.k = "Assign" -> n.targets \o <<n.value>>
      [] n.k = "Expr" -> <<n.value>>
      [] n.k = "Call" -> <<n.func>> \o n.args \o n.keywords
      [] n.k = "keyword" -> <<n.value>>
      [] n.k = "Attribute" -> <<n.value>>
      [] n.k \in {"List", "Tuple"} -> n.elts
      [] OTHER -> <<>>

\* ast.walk: breadth-first, the queue extended by each node's children; so
\* the nodes come level by level, each level in the order of its parents.
ChildrenOfAll(ns) == Concat([i \in 1..Len(ns) |-> iter_child_nodes(ns[i])])
RECURSIVE WalkLevels(_)
WalkLevels(level) ==
    IF level = <<>> THEN <<>> ELSE level \o WalkLevels(ChildrenOfAll(level))
walk(tree) == WalkLevels(<<tree>>)

\* ast.NodeVisitor.visit with generic_visit: depth-first, a node before its
\* children.
RECURSIVE VisitOrder(_)
RECURSIVE VisitAll(_)
VisitOrder(n) == <<n>> \o VisitAll(iter_child_nodes(n))
VisitAll(ns) == Concat([i \in 1..Len(ns) |-> VisitOrder(ns[i])])

\* The nodes of one kind, in the order given: isinstance(node, kind).
SelectKind(ns, kind) == SelectSeq(ns, LAMBDA n : n.k = kind)

(***************************************************************************)
(* The graph model of core.domain: typed nodes found by label, and         *)
(* directed labeled edges.                                                 *)
(***************************************************************************)
Node(kind, label, description, props) ==
    [kind |-> kind, label |-> label, description |-> description, props |-> props]
Process(label, description) == Node("Process", label, description, <<>>)
DataStore(label, description) == Node("DataStore", label, description, <<>>)
ExternalEntity(label, description) == Node("ExternalEntity", label, description, <<>>)
set_prop(node, key, value) == [node EXCEPT !.props = @ \o <<<<key, value>>>>]
None == [kind |-> "None"]

DFDGraph(name) == [name |-> name, nodes |-> <<>>, edges |-> <<>>]

HasLabel(g, label) == \E i \in 1..Len(g.nodes) : g.nodes[i].label = label
get_node_by_label(g, label) ==
    IF HasLabel(g, label)
    THEN g.nodes[CHOOSE i \in 1..Len(g.nodes) :
                    /\ g.nodes[i].label = label
                    /\ \A j \in 1..(i - 1) : g.nodes[j].label # label]
    ELSE None

\* add_node(node) inserts the node.  The graph is a generic labeled
\* multigraph: it does not look the label up, avoiding duplicates is left to
\* the caller (get_node_by_label, then add_node).
add_node(g, node) == [g EXCEPT !.nodes = Append(@, node)]

\* source.connect(target, label) appends one edge.
connect(g, source, target, label) ==
    [g EXCEPT !.edges = Append(@, [src |-> source, dst |-> target, label |-> label])]

(***************************************************************************)
(* File expansion, common to the three entry points.                       *)
(***************************************************************************)
FilesOf(path) ==
    IF IsDir(path) THEN Glob(path)
    ELSE IF EndsWithPy(path) THEN <<path>>
    ELSE <<>>

AllFiles(paths) == Concat([i \in 1..Len(paths) |-> FilesOf(paths[i])])

(***************************************************************************)
(* scan_components                                                         *)
(***************************************************************************)
ModelDescription(name) == <<"SQLAlchemy", SP, "Model:", SP, name>>
SessionDescription == <<"Requests", SP, "Session">>

IsModelBase(base) ==
    \/ base.k = "Attribute" /\ base.attr = "Model"
    \/ base.k = "Name" /\ base.id = "Model"

\* The DataStore made for a recognized base of a class definition.
ModelStore(node) ==
    set_prop(DataStore(S(node.name), ModelDescription(node.name)),
             "type", "SQLAlchemy Model")

\* The loop over node.bases: one node handed to add_node per recognized base.
StoresOfClass(node) ==
    Concat([i \in 1..Len(node.bases) |->
              IF IsModelBase(node.bases[i]) THEN <<ModelStore(node)>> ELSE <<>>])

\* getattr(func.value, 'id', '') == 'requests' and func.attr == 'Session'
IsSessionCall(value) ==
    /\ value.k = "Call"
    /\ value.func.k = "Attribute"
    /\ value.func.value.k = "Name"
    /\ value.func.value.id = "requests"
    /\ value.func.attr = "Session"

\* The loop over node.targets: one node handed to add_node per Name target.
EntitiesOfAssign(node) ==
    IF IsSessionCall(node.value)
    THEN Concat([i \in 1..Len(node.targets) |->
                   IF node.targets[i].k = "Name"
                   THEN <<ExternalEntity(S(node.targets[i].id), SessionDescription)>>
                   ELSE <<>>])
    ELSE <<>>

\* One iteration of the loop over ast.walk(tree): the nodes it hands to
\* add_node, in order.
ScanNode(node) ==
    (IF node.k = "ClassDef" THEN StoresOfClass(node) ELSE <<>>)
    \o (IF node.k = "Assign" THEN EntitiesOfAssign(node) ELSE <<>>)

\* The scanner never reads the graph: it only calls add_node.
RECURSIVE AddAll(_, _)
AddAll(g, nodes) ==
    IF nodes = <<>> THEN g ELSE AddAll(add_node(g, Head(nodes)), Tail(nodes))

ComponentsOfTree(tree) ==
    LET ns == walk(tree) IN Concat([i \in 1..Len(ns) |-> ScanNode(ns[i])])

_scan_ast_for_components(tree, g) == AddAll(g, ComponentsOfTree(tree))

\* The loop over the files; a file that does not parse is skipped.
ComponentsOfFiles(files) ==
    Concat([i \in 1..Len(files) |->
              IF Parses(files[i]) THEN ComponentsOfTree(Parse(files[i])) ELSE <<>>])

scan_components(paths) ==
    AddAll(DFDGraph("Flask App Analysis"), ComponentsOfFiles(AllFiles(paths)))

(***************************************************************************)
(* Route bindings: what the two readers of a decorator evaluate.           *)
(***************************************************************************)
\* What str() gives for a syntax-tree node: "<ast.Name object at 0x...>".
AstRepr == <<"<ast.Name", SP, "object", SP, "at", SP, "0x0>">>

\* n.value for a node that has the field: a Python string for a Constant,
\* a syntax-tree node otherwise.
ValueOf(n) ==
    IF n.k = "Constant" THEN [tag |-> "str", s |-> n.value]
    ELSE [tag |-> "node", s |-> AstRepr]
\* f"{v}"
Format(v) == v.s
\* v == text, for a Python string text
EqualsStr(v, text) == v.tag = "str" /\ v.s = text

\* isinstance(decorator, ast.Call) and isinstance(func, ast.Attribute)
\* and func.attr == 'route'
IsRouteCall(decorator) ==
    /\ decorator.k = "Call"
    /\ decorator.func.k = "Attribute"
    /\ decorator.func.attr = "route"

\* [elt.value for elt in keyword.value.elts]: raises when an element has no
\* field `value`.
RECURSIVE EltValues(_)
EltValues(elts) ==
    IF elts = <<>> THEN [raised |-> FALSE, vals |-> <<>>]
    ELSE LET rest == EltValues(Tail(elts))
         IN IF ~HasValueField(Head(elts)) THEN [raised |-> TRUE, vals |-> <<>>]
            ELSE [raised |-> rest.raised,
                  vals |-> IF rest.raised THEN <<>> ELSE <<ValueOf(Head(elts))>> \o rest.vals]

\* The loop over decorator.keywords, from methods = ['GET'].
RECURSIVE MethodsFrom(_, _)
MethodsFrom(methods, keywords) ==
    IF keywords = <<>> THEN [raised |-> FALSE, vals |-> methods]
    ELSE LET kw == Head(keywords)
         IN IF kw.arg = "methods" /\ kw.value.k = "List"
            THEN LET ev == EltValues(kw.value.elts)
                 IN IF ev.raised THEN ev ELSE MethodsFrom(ev.vals, Tail(keywords))
            ELSE MethodsFrom(methods, Tail(keywords))

DefaultMethods == <<[tag |-> "str", s |-> S("GET")]>>
Methods(decorator) == MethodsFrom(DefaultMethods, decorator.keywords)

(***************************************************************************)
(* identify_use_cases                                                      *)
(***************************************************************************)
UseCaseStrings(methods, route_path) ==
    [i \in 1..Len(methods) |-> Format(methods[i]) \o <<SP>> \o Format(route_path)]

\* The body of the loop over node.decorator_list: the strings appended, or
\* an exception raised before any is appended.
IdentifyDecorator(decorator) ==
    IF IsRouteCall(decorator) /\ decorator.args # <<>>
    THEN IF ~HasValueField(decorator.args[1])
         THEN [raised |-> TRUE, out |-> <<>>]
         ELSE LET m == Methods(decorator)
              IN IF m.raised THEN [raised |-> TRUE, out |-> <<>>]
                 ELSE [raised |-> FALSE,
                       out |-> UseCaseStrings(m.vals, ValueOf(decorator.args[1]))]
    ELSE [raised |-> FALSE, out |-> <<>>]

DecoratorsOf(funcs) == Concat([i \in 1..Len(funcs) |-> funcs[i].decorator_list])

\* The strings appended until the first exception ends the file.
RECURSIVE IdentifyDecorators(_)
IdentifyDecorators(decorators) ==
    IF decorators = <<>> THEN <<>>
    ELSE LET r == IdentifyDecorator(Head(decorators))
         IN IF r.raised THEN <<>> ELSE r.out \o IdentifyDecorators(Tail(decorators))

IdentifyFile(file_path) ==
    IF Parses(file_path)
    THEN IdentifyDecorators(DecoratorsOf(SelectKind(walk(Parse(file_path)), "FunctionDef")))
    ELSE <<>>

IdentifyFiles(files) == Concat([i \in 1..Len(files) |-> IdentifyFile(files[i])])

identify_use_cases(paths) == IdentifyFiles(AllFiles(paths))

(***************************************************************************)
(* RouteFinderVisitor                                                      *)
(***************************************************************************)
\* A mutation that does not check the methods.
RouteDecoratorAnyMethod(decorator, method, path) ==
    IF IsRouteCall(decorator) /\ decorator.args # <<>>
    THEN IF ~HasValueField(decorator.args[1]) THEN "raise"
         ELSE IF EqualsStr(ValueOf(decorator.args[1]), path) THEN "match" ELSE "skip"
    ELSE "skip"
\* Outcome of one decorator in visit_FunctionDef: "match", "skip" or "raise".
RouteDecorator(decorator, method, path) ==
    IF IsRouteCall(decorator) /\ decorator.args # <<>>
    THEN IF ~HasValueField(decorator.args[1]) THEN "raise"
         ELSE IF EqualsStr(ValueOf(decorator.args[1]), path)
              THEN LET m == Methods(decorator)
                   IN IF m.raised THEN "raise"
                      ELSE IF \E i \in 1..Len(m.vals) : EqualsStr(m.vals[i], method)
                           THEN "match" ELSE "skip"
              ELSE "skip"
    ELSE "skip"

\* The visit of a tree: functions in visit order, every decorator of each;
\* found_node is assigned at every match, an exception ends the visit.
RECURSIVE VisitDecorators(_, _, _, _, _)
VisitDecorators(state, node, decorators, method, path) ==
    IF decorators = <<>> \/ state.raised THEN state
    ELSE LET r == RouteDecorator(Head(decorators), method, path)
             s1 == CASE r = "raise" -> [state EXCEPT !.raised = TRUE]
                     [] r = "match" -> [state EXCEPT !.found_node = node]
                     [] OTHER -> state
         IN VisitDecorators(s1, node, Tail(decorators), method, path)

RECURSIVE VisitFunctions(_, _, _, _)
VisitFunctions(state, funcs, method, path) ==
    IF funcs = <<>> \/ state.raised THEN state
    ELSE VisitFunctions(
           VisitDecorators(state, Head(funcs), Head(funcs).decorator_list, method, path),
           Tail(funcs), method, path)

RouteFinderVisitor(tree, method, path) ==
    VisitFunctions([raised |-> FALSE, found_node |-> NoNode],
                   SelectKind(VisitOrder(tree), "FunctionDef"), method, path)

(***************************************************************************)
(* FunctionBodyAnalyzer                                                    *)
(***************************************************************************)
StoreOps == {"query", "add", "commit", "delete"}
HttpMethods == {"get", "post", "put", "delete", "patch"}
\* method.upper()
Upper(method) ==
    CASE method = "get" -> "GET"
      [] method = "post" -> "POST"
      [] method = "put" -> "PUT"
      [] method = "delete" -> "DELETE"
      [] method = "patch" -> "PATCH"
      [] OTHER -> method
HttpLabels == {Upper(m) : m \in HttpMethods}

ExternalApi == <<"External", SP, "API">>
ExternalDescription == <<"External", SP, "Service">>

\* The first `if` of visit_Call: a store operation on a bare name.
IsStoreCall(node) ==
    /\ node.func.k = "Attribute"
    /\ node.func.attr \in StoreOps
    /\ node.func.value.k = "Name"

\* A mutation that creates the store when the lookup misses.
LinkStoreCreate(g, process_node, node) ==
    IF IsStoreCall(node)
    THEN LET label == S(node.func.value.id)
             store == get_node_by_label(g, label)
             created == DataStore(label, <<>>)
         IN IF store = None
            THEN connect(add_node(g, created), process_node, created, node.func.attr)
            ELSE IF store.kind = "DataStore"
                 THEN connect(g, process_node, store, node.func.attr)
                 ELSE g
    ELSE g
LinkStore(g, process_node, node) ==
    IF IsStoreCall(node)
    THEN LET store == get_node_by_label(g, S(node.func.value.id))
         IN IF store # None /\ store.kind = "DataStore"
            THEN connect(g, process_node, store, node.func.attr)
            ELSE g
    ELSE g

\* The second `if` of visit_Call: requests.<verb>(...).
IsExternalCall(node) ==
    /\ node.func.k = "Attribute"
    /\ node.func.value.k = "Name"
    /\ node.func.value.id = "requests"
    /\ node.func.attr \in HttpMethods

ExternalLabel(node) ==
    IF node.args # <<>> /\ node.args[1].k = "Constant" THEN node.args[1].value
    ELSE ExternalApi

LinkExternal(g, process_node, node) ==
    IF IsExternalCall(node)
    THEN LET label == ExternalLabel(node)
             found == get_node_by_label(g, label)
             created == ExternalEntity(label, ExternalDescription)
             ee == IF found = None THEN created ELSE found
             g1 == IF found = None THEN add_node(g, created) ELSE g
         IN connect(g1, process_node, ee, Upper(node.func.attr))
    ELSE g

\* visit_Call, without the descent into the children.
visit_Call(g, process_node, node) ==
    LinkExternal(LinkStore(g, process_node, node), process_node, node)

\* The calls under a node, in the order the analyzer visits them.
CallsUnder(node) == SelectKind(VisitOrder(node), "Call")

RECURSIVE AnalyzeCalls(_, _, _)
AnalyzeCalls(g, process_node, calls) ==
    IF calls = <<>> THEN g
    ELSE AnalyzeCalls(visit_Call(g, process_node, Head(calls)), process_node, Tail(calls))

FunctionBodyAnalyzer(g, process_node, found_node) ==
    AnalyzeCalls(g, process_node, CallsUnder(found_node))

(***************************************************************************)
(* trace_use_case                                                          *)
(***************************************************************************)
\* use_case_name.split(" ", 1)
HasSeparator(text) == \E i \in 1..Len(text) : text[i] = SP
FirstSeparator(text) ==
    CHOOSE i \in 1..Len(text) : text[i] = SP /\ \A j \in 1..(i - 1) : text[j] # SP
Split1(text) ==
    IF HasSeparator(text)
    THEN <<SubSeq(text, 1, FirstSeparator(text) - 1),
           SubSeq(text, FirstSeparator(text) + 1, Len(text))>>
    ELSE <<text>>

HandlerDescription(name) == <<"Handler:", SP, name>>

\* The loop over the files: the first file that parses, is visited without an
\* exception and leaves found_node set.
RECURSIVE Locate(_, _, _)
Locate(files, method, path) ==
    IF files = <<>> THEN [found_node |-> NoNode, file |-> "", searched |-> <<>>]
    ELSE LET v == IF Parses(Head(files))
                  THEN RouteFinderVisitor(Parse(Head(files)), method, path)
                  ELSE [raised |-> TRUE, found_node |-> NoNode]
         IN IF ~v.raised /\ v.found_node # NoNode
            THEN [found_node |-> v.found_node, file |-> Head(files),
                  searched |-> <<Head(files)>>]
            ELSE LET rest == Locate(Tail(files), method, path)
                 IN [rest EXCEPT !.searched = <<Head(files)>> \o @]

\* The result: the graph returned, and what the call found on the way.
trace_use_case(paths, use_case_name, base_graph) ==
    LET parts == Split1(use_case_name)
    IN IF Len(parts) # 2
       THEN [graph |-> base_graph, found_node |-> NoNode, process_node |-> None,
             file |-> "", searched |-> <<>>]
       ELSE LET target_method == parts[1]
                target_path == parts[2]
                loc == Locate(AllFiles(paths), target_method, target_path)
                process_label == target_method \o <<SP>> \o target_path
                process_node == Process(process_label,
                                        HandlerDescription(loc.found_node.name))
            IN IF loc.found_node = NoNode
               THEN [graph |-> base_graph, found_node |-> NoNode,
                     process_node |-> None, file |-> "", searched |-> loc.searched]
               ELSE [graph |-> FunctionBodyAnalyzer(add_node(base_graph, process_node),
                                                    process_node, loc.found_node),
                     found_node |-> loc.found_node, process_node |-> process_node,
                     file |-> loc.file, searched |-> loc.searched]

(***************************************************************************)
(* The state machine: a caller holding a list of source paths and a graph  *)
(* calls the three entry points in any order.                              *)
(***************************************************************************)
\* The lists of source paths a caller may pass: every single path, and
\* lists that put two files, or a skipped path and a file, in sequence.
SourceLists ==
    {<<p>> : p \in Paths} \cup
    {<<"notes.txt", "users.py">>, <<"broken.py", "users.py">>,
     <<"models.py", "users.py">>, <<"users.py", "dup.py">>,
     <<"nonlit.py", "dup.py">>, <<"users.py", "ext.py">>,
     <<"junk.py", "nonlit.py">>, <<"app", "svc">>}

\* Use cases a caller may ask for besides those the enumerator returned:
\* one that may match, one that matches nothing, one without a separator.
TraceInputs == {Words("GET", "/users"), Words("PUT", "/users"), S("users")}

NoCall == [op |-> "none", use_case |-> <<>>, found_node |-> NoNode,
           process_node |-> None, file |-> "", searched |-> <<>>]

Init ==
    /\ source_paths \in SourceLists
    /\ graph = DFDGraph("Flask App Analysis")
    /\ use_cases = <<>>
    /\ last = NoCall
    /\ pre = graph
    /\ nops = 0

ScanComponents ==
    /\ nops < MaxOps
    /\ graph' = scan_components(source_paths)
    /\ last' = [NoCall EXCEPT !.op = "scan"]
    /\ pre' = graph
    /\ nops' = nops + 1
    /\ UNCHANGED <<source_paths, use_cases>>

IdentifyUseCases ==
    /\ nops < MaxOps
    /\ use_cases' = identify_use_cases(source_paths)
    /\ last' = [NoCall EXCEPT !.op = "identify"]
    /\ pre' = graph
    /\ nops' = nops + 1
    /\ UNCHANGED <<source_paths, graph>>

TraceUseCase ==
    /\ nops < MaxOps
    /\ \E use_case_name \in TraceInputs \cup Range(use_cases) :
         LET r == trace_use_case(source_paths, use_case_name, graph)
         IN /\ graph' = r.graph
            /\ last' = [op |-> "trace", use_case |-> use_case_name,
                        found_node |-> r.found_node, process_node |-> r.process_node,
                        file |-> r.file, searched |-> r.searched]
    /\ pre' = graph
    /\ nops' = nops + 1
    /\ UNCHANGED <<source_paths, use_cases>>

Next == ScanComponents \/ IdentifyUseCases \/ TraceUseCase

Spec == Init /\ [][Next]_vars

(***************************************************************************)
(* Vocabulary of the properties.                                           *)
(***************************************************************************)
Traced == last.op = "trace"
TracedFound == Traced /\ last.found_node # NoNode
TargetMethod == Split1(last.use_case)[1]
TargetPath == Split1(last.use_case)[2]

\* The edges an operation appended to the graph.
NewEdges == SubSeq(graph.edges, Len(pre.edges) + 1, Len(graph.edges))

HoldsKind(g, label, kind) ==
    \E i \in 1..Len(g.nodes) : g.nodes[i].label = label /\ g.nodes[i].kind = kind
CountNodes(g, label, kind) ==
    Cardinality({i \in 1..Len(g.nodes) :
                   g.nodes[i].label = label /\ g.nodes[i].kind = kind})

ParsedFiles == SelectSeq(AllFiles(source_paths), Parses)
FunctionsOf(file_path) == SelectKind(VisitOrder(Parse(file_path)), "FunctionDef")

\* A route binding as the design describes it: a literal path, and the verbs
\* of a literal list, or GET when no list is given.
LiteralRoute(decorator) ==
    /\ IsRouteCall(decorator)
    /\ decorator.args # <<>>
    /\ decorator.args[1].k = "Constant"
    /\ \A i \in 1..Len(decorator.keywords) :
         (decorator.keywords[i].arg = "methods" /\ decorator.keywords[i].value.k = "List")
         => \A j \in 1..Len(decorator.keywords[i].value.elts) :
              decorator.keywords[i].value.elts[j].k = "Constant"
HasMethodsList(decorator) ==
    \E i \in 1..Len(decorator.keywords) :
       decorator.keywords[i].arg = "methods" /\ decorator.keywords[i].value.k = "List"
DeclaredVerbs(decorator) ==
    IF HasMethodsList(decorator)
    THEN LET i == CHOOSE i \in 1..Len(decorator.keywords) :
                    /\ decorator.keywords[i].arg = "methods"
                    /\ decorator.keywords[i].value.k = "List"
                    /\ \A j \in (i + 1)..Len(decorator.keywords) :
                         ~(decorator.keywords[j].arg = "methods"
                           /\ decorator.keywords[j].value.k = "List")
             elts == decorator.keywords[i].value.elts
         IN [j \in 1..Len(elts) |-> elts[j].value]
    ELSE <<S("GET")>>
Declares(function, method, path) ==
    \E i \in 1..Len(function.decorator_list) :
       LET d == function.decorator_list[i]
       IN /\ LiteralRoute(d)
          /\ d.args[1].value = path
          /\ method \in Range(DeclaredVerbs(d))
FileDeclares(file_path, method, path) ==
    \E i \in 1..Len(FunctionsOf(file_path)) :
       Declares(FunctionsOf(file_path)[i], method, path)

\* The analysis of the traced handler, call by call.
Calls == CallsUnder(last.found_node)
WithProcess == add_node(pre, last.process_node)
GraphBeforeCall(i) == AnalyzeCalls(WithProcess, last.process_node, SubSeq(Calls, 1, i - 1))
GraphAfterCall(i) == visit_Call(GraphBeforeCall(i), last.process_node, Calls[i])
NodesAddedByCall(i) ==
    SubSeq(GraphAfterCall(i).nodes, Len(GraphBeforeCall(i).nodes) + 1,
           Len(GraphAfterCall(i).nodes))
EdgesAddedByCall(i) ==
    SubSeq(GraphAfterCall(i).edges, Len(GraphBeforeCall(i).edges) + 1,
           Len(GraphAfterCall(i).edges))
Receiver(i) == S(Calls[i].func.value.id)
DataStoresOf(g) == SelectSeq(g.nodes, LAMBDA n : n.kind = "DataStore")

(***************************************************************************)
(* Strict store linking.                                                   *)
(***************************************************************************)
\* A store call X.op(...) adds an edge labeled op only to a DataStore labeled
\* X that the input graph held.
StoreEdgeOnlyToHeldStore(i) ==
    \A e \in Range(EdgesAddedByCall(i)) :
       e.label \in StoreOps =>
          /\ e.label = Calls[i].func.attr
          /\ e.src = last.process_node
          /\ e.dst.kind = "DataStore"
          /\ e.dst.label = Receiver(i)
          /\ e.dst \in Range(pre.nodes)

\* C5 as stated: trace_use_case never adds a DataStore node; a call X.op(...)
\* with op a store operation and X a bare name adds an edge labeled op only
\* if the graph already holds a DataStore labeled X, and if there is none
\* the call adds no node at all and no edge labeled with a store operation.
C5_StrictStoreLinkingAsStated ==
    TracedFound =>
       /\ DataStoresOf(graph) = DataStoresOf(pre)
       /\ \A i \in 1..Len(Calls) :
            IsStoreCall(Calls[i]) =>
               /\ StoreEdgeOnlyToHeldStore(i)
               /\ ~HoldsKind(pre, Receiver(i), "DataStore") =>
                     /\ NodesAddedByCall(i) = <<>>
                     /\ \A e \in Range(EdgesAddedByCall(i)) : e.label \notin StoreOps

\* C5 amended: trace_use_case never adds a DataStore node; a call X.op(...)
\* with op a store operation and X a bare name adds an edge labeled op only
\* if the graph already holds a DataStore labeled X, and if there is none
\* the call adds no DataStore node and no edge labeled with a store
\* operation (requests.delete(...) is still linked as an external call).
C5_StrictStoreLinking ==
    TracedFound =>
       /\ DataStoresOf(graph) = DataStoresOf(pre)
       /\ graph = AnalyzeCalls(WithProcess, last.process_node, Calls)
       /\ \A i \in 1..Len(Calls) :
            IsStoreCall(Calls[i]) =>
               /\ StoreEdgeOnlyToHeldStore(i)
               /\ ~HoldsKind(pre, Receiver(i), "DataStore") =>
                     /\ \A n \in Range(NodesAddedByCall(i)) : n.kind # "DataStore"
                     /\ \A e \in Range(EdgesAddedByCall(i)) : e.label \notin StoreOps

\* A trace whose handler holds a store call that misses and one that hits.
C5_Witness ==
    /\ TracedFound
    /\ \E i \in 1..Len(Calls) :
         /\ IsStoreCall(Calls[i])
         /\ ~HoldsKind(pre, Receiver(i), "DataStore")
         /\ NodesAddedByCall(i) = <<>>
    /\ \E i \in 1..Len(Calls) :
         /\ IsStoreCall(Calls[i])
         /\ HoldsKind(pre, Receiver(i), "DataStore")
         /\ \E e \in Range(NewEdges) :
              e.label = Calls[i].func.attr /\ e.dst.label = Receiver(i)

(***************************************************************************)
(* Tracing without a match.                                                *)
(***************************************************************************)
NothingDeclares ==
    \A i \in 1..Len(ParsedFiles) : ~FileDeclares(ParsedFiles[i], TargetMethod, TargetPath)

\* C6: when the use-case identifier has no separator, or no function
\* declaration of any file that parses matches (verb, path), or no handler
\* is found, trace_use_case returns the input graph with its nodes and edges
\* as they were and adds no Process.
C6_NoMatchIsNoOp ==
    /\ (Traced /\ (~HasSeparator(last.use_case) \/ NothingDeclares))
          => graph = pre /\ last.process_node = None
    /\ (Traced /\ last.found_node = NoNode) => graph = pre

\* A trace that matches nothing, over a list holding a file that does not
\* parse, on a graph that holds nodes.
C6_Witness ==
    /\ Traced
    /\ HasSeparator(last.use_case)
    /\ NothingDeclares
    /\ \E i \in 1..Len(AllFiles(source_paths)) : ~Parses(AllFiles(source_paths)[i])
    /\ pre.nodes # <<>>
    /\ graph = pre

(***************************************************************************)
(* Label uniqueness.                                                       *)
(***************************************************************************)
\* C7: the core adds a node only when the graph holds no node with that
\* label: after scan_components and any sequence of trace_use_case calls, no
\* two nodes of the graph share a label.
C7_LabelsUnique ==
    \A i, j \in 1..Len(graph.nodes) :
       graph.nodes[i].label = graph.nodes[j].label => i = j

(***************************************************************************)
(* The end-to-end scenario.                                                *)
(***************************************************************************)
GetUsers == Words("GET", "/users")
UserStore == get_node_by_label(pre, S("User"))
ListUsersProcess == Process(GetUsers, HandlerDescription("list_users"))

\* C1: on a graph that holds the DataStore User, with list_users of users.py
\* (route /users, methods ["GET"], body `return User.query.all()`) the one
\* declaration of GET /users, tracing "GET /users" returns the graph plus
\* one Process labeled "GET /users" and one edge from it to User labeled
\* "query".
C1_EndToEnd ==
    (/\ Traced
     /\ last.use_case = GetUsers
     /\ "users.py" \in Range(ParsedFiles)
     /\ \A f \in Range(ParsedFiles) : FileDeclares(f, S("GET"), S("/users")) => f = "users.py"
     /\ HoldsKind(pre, S("User"), "DataStore"))
    => /\ graph.nodes = Append(pre.nodes, ListUsersProcess)
       /\ graph.edges = Append(pre.edges, [src |-> ListUsersProcess, dst |-> UserStore,
                                           label |-> "query"])

(***************************************************************************)
(* First match wins.                                                       *)
(***************************************************************************)
FirstDeclaringIndex ==
    CHOOSE i \in 1..Len(AllFiles(source_paths)) :
       /\ Parses(AllFiles(source_paths)[i])
       /\ FileDeclares(AllFiles(source_paths)[i], TargetMethod, TargetPath)
       /\ \A j \in 1..(i - 1) :
            ~(Parses(AllFiles(source_paths)[j])
              /\ FileDeclares(AllFiles(source_paths)[j], TargetMethod, TargetPath))
FirstDeclaringFile == AllFiles(source_paths)[FirstDeclaringIndex]
FirstHandler ==
    LET fs == FunctionsOf(FirstDeclaringFile)
        i == CHOOSE i \in 1..Len(fs) :
               /\ Declares(fs[i], TargetMethod, TargetPath)
               /\ \A j \in 1..(i - 1) : ~Declares(fs[j], TargetMethod, TargetPath)
    IN fs[i]

\* C2: when several function declarations match the traced (verb, path), the
\* first match in file-then-tree-walk order is used: the Process description
\* names it, only its body is analyzed for edges, and no file after the
\* first file holding a match is searched.
C2_FirstMatchWins ==
    (Traced /\ HasSeparator(last.use_case) /\ ~NothingDeclares)
    => /\ last.found_node = FirstHandler
       /\ last.process_node = Process(last.use_case, HandlerDescription(FirstHandler.name))
       /\ graph = FunctionBodyAnalyzer(add_node(pre, last.process_node),
                                       last.process_node, FirstHandler)
       /\ last.searched = SubSeq(AllFiles(source_paths), 1, FirstDeclaringIndex)

(***************************************************************************)
(* Enumeration.                                                            *)
(***************************************************************************)
StringsOfDecorator(d) ==
    IF LiteralRoute(d)
    THEN [i \in 1..Len(DeclaredVerbs(d)) |-> DeclaredVerbs(d)[i] \o <<SP>> \o d.args[1].value]
    ELSE <<>>
StringsOfFunction(f) ==
    Concat([i \in 1..Len(f.decorator_list) |-> StringsOfDecorator(f.decorator_list[i])])
StringsOfFile(file_path) ==
    LET fs == SelectKind(walk(Parse(file_path)), "FunctionDef")
    IN Concat([i \in 1..Len(fs) |-> StringsOfFunction(fs[i])])
StringsOfLiteralRoutes ==
    Concat([i \in 1..Len(ParsedFiles) |-> StringsOfFile(ParsedFiles[i])])

\* C3: identify_use_cases skips a route binding whose first positional
\* argument is absent or not a literal, and only that binding: every route
\* binding with a literal path, before or after it, contributes its
\* "VERB PATH" strings and nothing is emitted for the skipped one.
C3_OnlyThatDecoratorSkipped ==
    last.op = "identify" => use_cases = StringsOfLiteralRoutes

(***************************************************************************)
(* External entities.                                                      *)
(***************************************************************************)
ExternalCallsTo(label) ==
    SelectSeq(Calls, LAMBDA c : IsExternalCall(c) /\ ExternalLabel(c) = label)
EdgesTo(label) ==
    SelectSeq(NewEdges, LAMBDA e : e.src = last.process_node /\ e.dst.label = label)

\* C4: when the traced handler holds n >= 1 calls requests.<verb>(L, ...)
\* with one label L (the literal first argument, or "External API" without
\* one) and the input graph holds no node labeled L, the trace creates
\* exactly one ExternalEntity labeled L and adds exactly n edges from the new
\* Process to it, each labeled with its call's verb in upper case.
C4_PermissiveExternalLinking ==
    TracedFound =>
       \A i \in 1..Len(Calls) :
          (IsExternalCall(Calls[i]) /\ ~HasLabel(pre, ExternalLabel(Calls[i]))) =>
             LET L == ExternalLabel(Calls[i])
             IN /\ CountNodes(graph, L, "ExternalEntity") = 1
                /\ Len(EdgesTo(L)) = Len(ExternalCallsTo(L))
                /\ \A k \in 1..Len(EdgesTo(L)) :
                     /\ EdgesTo(L)[k].dst.kind = "ExternalEntity"
                     /\ EdgesTo(L)[k].label = Upper(ExternalCallsTo(L)[k].func.attr)

\* C8: scan_components creates an ExternalEntity only for a module-scope
\* assignment whose right-hand side is a call requests.Session(...).
TopLevelSessionTarget(label) ==
    \E f \in Range(ParsedFiles) :
       \E i \in 1..Len(Parse(f).body) :
          LET st == Parse(f).body[i]
          IN /\ st.k = "Assign"
             /\ IsSessionCall(st.value)
             /\ \E t \in Range(st.targets) : t.k = "Name" /\ S(t.id) = label
C8_SessionOnlyAtModuleScope ==
    last.op = "scan" =>
       \A n \in Range(graph.nodes) :
          n.kind = "ExternalEntity" => TopLevelSessionTarget(n.label)

\* C9: every edge a trace adds goes from the traced Process to a DataStore or
\* an ExternalEntity, and an edge labeled with an upper-case HTTP verb
\* targets an ExternalEntity.
C9_EdgeTargets ==
    Traced =>
       \A e \in Range(NewEdges) :
          /\ e.src = last.process_node
          /\ e.dst.kind \in {"DataStore", "ExternalEntity"}
          /\ e.label \in HttpLabels => e.dst.kind = "ExternalEntity"

\* C10: every string identify_use_cases returns for the source list is
\* traceable: trace_use_case finds a handler for it and the graph holds a
\* Process labeled with it.
C10_EnumeratedIsTraceable ==
    (Traced /\ last.use_case \in Range(identify_use_cases(source_paths)))
    => /\ last.found_node # NoNode
       /\ last.process_node.label = last.use_case
       /\ HoldsKind(graph, last.use_case, "Process")

====
